---- MODULE Spec2Model ----
(***************************************************************************)
(* Block verification pipeline of verification/src/block_verifier.rs:      *)
(* BlockVerifier and its six sub-verifiers, run against a candidate block  *)
(* and a read-only chain provider.                                         *)
(*                                                                         *)
(* Hashes (H256) are naturals; every universe below gives distinct         *)
(* contents distinct hashes.  Capacity and block numbers are fixed-width   *)
(* unsigned integers, modelled with a scaled-down width.                   *)
(***************************************************************************)
EXTENDS Integers, Sequences, FiniteSets, TLC

\* ------------------------------------------------------------------ bounds
\* Longest transaction list drawn for a candidate block.
MaxTxs == 3
\* Longest uncle list drawn for a candidate block.
MaxUncles == 2
\* Greatest block number drawn for a candidate block.
MaxNumber == 3
\* consensus().max_uncles_age() of the chains drawn.
MaxUnclesAge == 2
\* Width in bits of the Capacity integer (scaled down).
CapacityBits == 2
\* Width in bits of the block number integer, u64 in the code (scaled down).
NumberBits == 4

CapacityModulus == 2 ^ CapacityBits
CapacityMax == CapacityModulus - 1
NumberModulus == 2 ^ NumberBits

\* ------------------------------------------------------------- results
\* Result<(), Error>.  Every result has the same shape so that any two
\* can be compared: kind/sub name the Error variant, nums its integer
\* payload, list the (index, TransactionError) pairs of Error::Transaction.
Res(kind, sub, nums, list) ==
    [kind |-> kind, sub |-> sub, nums |-> nums, list |-> list]

Ok == Res("Ok", "", <<>>, <<>>)
\* No value yet: verify() has not returned.
Running == Res("Running", "", <<>>, <<>>)
\* The thread unwound on a panic (an arithmetic overflow in a build with
\* overflow checks): verify() returns nothing to its caller.
Panic == Res("Panic", "", <<>>, <<>>)

ErrEmptyTransactions == Res("EmptyTransactions", "", <<>>, <<>>)
ErrDuplicateTransactions == Res("DuplicateTransactions", "", <<>>, <<>>)
ErrTransactionsRoot == Res("TransactionsRoot", "", <<>>, <<>>)
ErrCellbase(sub) == Res("Cellbase", sub, <<>>, <<>>)
ErrUncles(sub, nums) == Res("Uncles", sub, nums, <<>>)
ErrTransaction(list) == Res("Transaction", "", <<>>, list)
\* Errors of the collaborators, propagated by `?`.
ErrFee == Res("FeeCalculation", "", <<>>, <<>>)
ErrHeader(sub, nums) == Res("Header", sub, nums, <<>>)

\* ------------------------------------------------------- transactions
\* OutPoint::null(): the zero hash and the greatest index.
NullIndex == 2 ^ 16 - 1
NullOutPoint == [hash |-> 0, index |-> NullIndex]

\* CellInput { previous_output, unlock }.
CellInput(hash, index) ==
    [previous_output |-> [hash |-> hash, index |-> index], unlock |-> 0]

\* CellInput::new_cellbase_input(number): the null outpoint and an unlock
\* script that encodes the block number.
new_cellbase_input(number) ==
    [previous_output |-> NullOutPoint, unlock |-> 1 + number]

\* Transaction::is_cellbase.
is_cellbase(tx) ==
    Len(tx.inputs) = 1 /\ tx.inputs[1].previous_output = NullOutPoint

\* Injective code of a sequence of naturals below HashRadix - 1.
HashRadix == CapacityModulus + MaxNumber + 3

RECURSIVE SeqCode(_)
SeqCode(s) ==
    IF s = <<>> THEN 0 ELSE (Head(s) + 1) + HashRadix * SeqCode(Tail(s))

\* The cellbase of a block: its hash is a function of its whole content.
Cellbase(number, outputs) ==
    [hash |-> 100 + SeqCode(<<number>> \o outputs),
     inputs |-> <<new_cellbase_input(number)>>,
     outputs |-> outputs]

\* Ordinary transactions.  90 is the hash of a transaction confirmed in
\* the chain; T1 spends its output 0, T2 spends T1's output 0, T3 names an
\* output of T1 that does not exist.
T1 == [hash |-> 1, inputs |-> <<CellInput(90, 0)>>, outputs |-> <<1>>]
T2 == [hash |-> 2, inputs |-> <<CellInput(1, 0)>>, outputs |-> <<1>>]
T3 == [hash |-> 3, inputs |-> <<CellInput(1, 1)>>, outputs |-> <<>>]
NormalTxs == {T1, T2, T3}

\* Sequences over S of length lo..hi.
SeqsOf(S, lo, hi) == UNION {[1..n -> S] : n \in lo..hi}

Range(s) == {s[i] : i \in DOMAIN s}

\* ----------------------------------------------------------- merkle root
\* merkle_root(&hashes): a hash tree written as the flat preorder list of
\* its nodes (-1 marks an inner node), so that different trees are
\* different values.  An odd level pairs its last node with itself; the
\* root of no hashes is the zero hash.
MerkleNode(l, r) == <<-1>> \o l \o r

RECURSIVE MerkleLevel(_)
MerkleLevel(row) ==
    IF Len(row) = 0 THEN <<>>
    ELSE IF Len(row) = 1 THEN <<MerkleNode(row[1], row[1])>>
    ELSE <<MerkleNode(row[1], row[2])>> \o MerkleLevel(SubSeq(row, 3, Len(row)))

RECURSIVE MerkleFold(_)
MerkleFold(row) ==
    IF Len(row) = 1 THEN row[1] ELSE MerkleFold(MerkleLevel(row))

merkle_root(hashes) ==
    IF hashes = <<>> THEN <<0>>
    ELSE MerkleFold([i \in DOMAIN hashes |-> <<hashes[i]>>])

\* The hashes of a block's transactions, in list order.
TxHashes(b) == [i \in DOMAIN b.transactions |-> b.transactions[i].hash]

\* ------------------------------------------------ structural verifiers
\* The test of the list turned around.
EmptyTransactionsVerifyInverted(b) ==
    IF b.transactions # <<>> THEN ErrEmptyTransactions ELSE Ok

\* EmptyTransactionsVerifier::verify
EmptyTransactionsVerify(b) ==
    IF b.transactions = <<>> THEN ErrEmptyTransactions ELSE Ok

\* Only neighbours compared, as after a dedup of consecutive hashes.
DuplicateTransactionsVerifyAdjacent(b) ==
    IF \E i \in 1 .. Len(b.transactions) - 1 :
          b.transactions[i].hash = b.transactions[i + 1].hash
    THEN ErrDuplicateTransactions
    ELSE Ok

\* DuplicateTransactionsVerifier::verify
DuplicateTransactionsVerify(b) ==
    LET hashes == Range(TxHashes(b))
    IN  IF Cardinality(hashes) = Len(b.transactions)
        THEN Ok
        ELSE ErrDuplicateTransactions

\* The root taken over the transactions after the first, as if the
\* cellbase were not committed to.
MerkleRootVerifySkippingFirst(b) ==
    IF b.header.txs_commit =
           merkle_root(IF b.transactions = <<>> THEN <<>> ELSE Tail(TxHashes(b)))
    THEN Ok
    ELSE ErrTransactionsRoot

\* MerkleRootVerifier::verify
MerkleRootVerify(b) ==
    IF b.header.txs_commit = merkle_root(TxHashes(b))
    THEN Ok
    ELSE ErrTransactionsRoot

\* ----------------------------------------------------- cellbase verifier
\* a + b on Capacity.  With overflow checks (checked) a sum that does not
\* fit panics; without them it wraps.
CapacityAdd(a, b, checked) ==
    IF a + b < CapacityModulus THEN [st |-> "ok", v |-> a + b]
    ELSE IF checked THEN [st |-> "panic", v |-> 0]
    ELSE [st |-> "ok", v |-> (a + b) % CapacityModulus]

\* chain.block_reward(number)
block_reward(c, number) == c.reward

\* chain.calculate_transaction_fee(transaction): a fee, or an error (-1).
calculate_transaction_fee(c, tx) ==
    IF c.fee[tx.hash] < 0
    THEN [st |-> "err", v |-> 0]
    ELSE [st |-> "ok", v |-> c.fee[tx.hash]]

\* for transaction in transactions.iter().skip(1) { fee += fee(tx)?; }
RECURSIVE FeeLoop(_, _, _, _)
FeeLoop(c, txs, fee, checked) ==
    IF txs = <<>> THEN [st |-> "ok", v |-> fee]
    ELSE LET f == calculate_transaction_fee(c, Head(txs))
         IN  IF f.st = "err" THEN f
             ELSE LET sum == CapacityAdd(fee, f.v, checked)
                  IN  IF sum.st = "panic" THEN sum
                      ELSE FeeLoop(c, Tail(txs), sum.v, checked)

\* The transactions whose fee that loop asks the chain for: all up to
\* the one at which it stops.
RECURSIVE FeeQueried(_, _, _, _)
FeeQueried(c, txs, fee, checked) ==
    IF txs = <<>> THEN {}
    ELSE LET f == calculate_transaction_fee(c, Head(txs))
             sum == CapacityAdd(fee, f.v, checked)
         IN  {Head(txs).hash} \cup
             IF f.st = "err" \/ sum.st = "panic" THEN {}
             ELSE FeeQueried(c, Tail(txs), sum.v, checked)

\* outputs.iter().map(|output| output.capacity).sum()
RECURSIVE SumLoop(_, _, _)
SumLoop(outputs, acc, checked) ==
    IF outputs = <<>> THEN [st |-> "ok", v |-> acc]
    ELSE LET sum == CapacityAdd(acc, Head(outputs), checked)
         IN  IF sum.st = "panic" THEN sum
             ELSE SumLoop(Tail(outputs), sum.v, checked)

\* The comparison that ends CellbaseTransactionsVerifier::verify.
RewardExceeded(output_capacity, total_reward) ==
    output_capacity > total_reward

\* The count taken over the distinct hashes of the cellbase transactions.
CellbaseLenDistinct(b) ==
    Cardinality({b.transactions[i].hash :
                    i \in {i \in DOMAIN b.transactions :
                              is_cellbase(b.transactions[i])}})

\* The count of transactions satisfying the cellbase predicate.
CellbaseLen(b) ==
    Cardinality({i \in DOMAIN b.transactions : is_cellbase(b.transactions[i])})

\* The reward part of CellbaseTransactionsVerifier::verify.
CellbaseReward(b, c, checked) ==
    LET cellbase_transaction == b.transactions[1]
        reward == block_reward(c, b.header.number)
        fee == FeeLoop(c, Tail(b.transactions), 0, checked)
    IN  IF fee.st = "err" THEN ErrFee
        ELSE IF fee.st = "panic" THEN Panic
        ELSE LET total_reward == CapacityAdd(reward, fee.v, checked)
                 output_capacity ==
                     SumLoop(cellbase_transaction.outputs, 0, checked)
             IN  IF total_reward.st = "panic" THEN Panic
                 ELSE IF output_capacity.st = "panic" THEN Panic
                 ELSE IF RewardExceeded(output_capacity.v, total_reward.v)
                      THEN ErrCellbase("InvalidReward")
                      ELSE Ok

\* The check computing the reward before it compares the cellbase's
\* input: a fee failure or a reward error hides the wrong input.
CellbaseTransactionsVerifyRewardFirst(b, c, checked) ==
    IF b.transactions = <<>> THEN Ok
    ELSE LET cellbase_len == CellbaseLen(b)
         IN  IF cellbase_len = 0 THEN Ok
             ELSE IF cellbase_len > 1 THEN ErrCellbase("InvalidQuantity")
             ELSE IF cellbase_len = 1 /\ ~is_cellbase(b.transactions[1])
                  THEN ErrCellbase("InvalidPosition")
             ELSE IF CellbaseReward(b, c, checked) # Ok
                  THEN CellbaseReward(b, c, checked)
             ELSE IF b.transactions[1].inputs[1]
                        # new_cellbase_input(b.header.number)
                  THEN ErrCellbase("InvalidInput")
             ELSE Ok

\* The check tightened to demand a cellbase: a non-empty list without
\* one is refused.
CellbaseTransactionsVerifyRequiringCellbase(b, c, checked) ==
    IF b.transactions = <<>> THEN Ok
    ELSE LET cellbase_len == CellbaseLen(b)
         IN  IF cellbase_len # 1 THEN ErrCellbase("InvalidQuantity")
             ELSE IF ~is_cellbase(b.transactions[1])
                  THEN ErrCellbase("InvalidPosition")
             ELSE IF b.transactions[1].inputs[1]
                        # new_cellbase_input(b.header.number)
                  THEN ErrCellbase("InvalidInput")
             ELSE CellbaseReward(b, c, checked)

\* The check without its position test: the first transaction is taken
\* for the cellbase as soon as exactly one cellbase is counted.
CellbaseTransactionsVerifyAnyPosition(b, c, checked) ==
    IF b.transactions = <<>> THEN Ok
    ELSE LET cellbase_len == CellbaseLen(b)
         IN  IF cellbase_len = 0 THEN Ok
             ELSE IF cellbase_len > 1 THEN ErrCellbase("InvalidQuantity")
             ELSE IF b.transactions[1].inputs[1]
                        # new_cellbase_input(b.header.number)
                  THEN ErrCellbase("InvalidInput")
             ELSE CellbaseReward(b, c, checked)

\* CellbaseTransactionsVerifier::verify
CellbaseTransactionsVerify(b, c, checked) ==
    IF b.transactions = <<>> THEN Ok
    ELSE LET cellbase_len == CellbaseLen(b)
         IN  IF cellbase_len = 0 THEN Ok
             ELSE IF cellbase_len > 1 THEN ErrCellbase("InvalidQuantity")
             ELSE IF cellbase_len = 1 /\ ~is_cellbase(b.transactions[1])
                  THEN ErrCellbase("InvalidPosition")
             ELSE IF b.transactions[1].inputs[1]
                        # new_cellbase_input(b.header.number)
                  THEN ErrCellbase("InvalidInput")
             ELSE CellbaseReward(b, c, checked)

\* ------------------------------------------------------- headers, chain
\* Option<T>: None is the empty sequence, Some(x) is <<x>>.
None == <<>>
Some(x) == <<x>>

\* The header fields the uncle check and header verification read.
Header(hash, number, parent_hash, cellbase_id, difficulty, nonce) ==
    [hash |-> hash, number |-> number, parent_hash |-> parent_hash,
     cellbase_id |-> cellbase_id, difficulty |-> difficulty, nonce |-> nonce]

\* An uncle: a header and its own cellbase transaction.
UncleBlock(header, cellbase) == [header |-> header, cellbase |-> cellbase]

\* The main chain the provider stores: one block per number 0..MaxNumber-1,
\* hash 10 + number, each on top of the previous; the parent of the first
\* is the zero hash, which the store does not hold.
MainNumbers == 0 .. MaxNumber - 1
MainHash(k) == 10 + k
MainParent(k) == IF k = 0 THEN 0 ELSE MainHash(k - 1)
MainHeader(k) ==
    Header(MainHash(k), k, MainParent(k), Cellbase(k, <<>>).hash, 1, 1)

\* Uncle candidates.  Side(k): a well-formed sibling of main block k.
\* Anc(k): main block k itself.  The others break one rule each: the
\* header of Side(k) with a cellbase it does not commit to, an
\* invalid proof of work (nonce 0), a difficulty the chain does not
\* recompute, a parent the store does not hold (hash 99).
Side(k) ==
    UncleBlock(Header(20 + k, k, MainParent(k), Cellbase(k, <<>>).hash, 1, 1),
               Cellbase(k, <<>>))
Anc(k) == UncleBlock(MainHeader(k), Cellbase(k, <<>>))
BadCellbase(k) == UncleBlock(Side(k).header, Cellbase(k, <<1>>))
BadPow(k) ==
    UncleBlock(Header(40 + k, k, MainParent(k), Cellbase(k, <<>>).hash, 1, 0),
               Cellbase(k, <<>>))
BadDifficulty(k) ==
    UncleBlock(Header(50 + k, k, MainParent(k), Cellbase(k, <<>>).hash, 2, 1),
               Cellbase(k, <<>>))
Orphan(k) ==
    UncleBlock(Header(60 + k, k, 99, Cellbase(k, <<>>).hash, 1, 1),
               Cellbase(k, <<>>))

\* The blocks of the store.  With claiming, main block k (k >= 2) declares
\* Side(k - 1) as its uncle.
ChainBlocks(claiming) ==
    [h \in {MainHash(k) : k \in MainNumbers} |->
        LET k == h - 10
        IN  [header |-> MainHeader(k),
             uncles |-> IF claiming /\ k >= 2 THEN <<Side(k - 1)>> ELSE <<>>]]

\* chain.block(&hash) and chain.block_header(&hash)
chain_block(c, hash) ==
    IF hash \in DOMAIN c.blocks THEN Some(c.blocks[hash]) ELSE None
chain_block_header(c, hash) ==
    IF hash \in DOMAIN c.blocks THEN Some(c.blocks[hash].header) ELSE None

\* chain.calculate_difficulty(parent): this chain keeps the difficulty of
\* the parent.
chain_calculate_difficulty(c, parent) == Some(parent.difficulty)

\* CellState: Head (live, with its output), Tail (spent) or Unknown.
CellState(state, capacity) == [state |-> state, capacity |-> capacity]
Unknown == CellState("Unknown", 0)

\* chain.cell_at(o, parent): the canonical state of outpoint o as of block
\* `parent`; as of a block the store does not hold, nothing is known.
chain_cell_at(c, o, parent) ==
    IF parent \in DOMAIN c.blocks /\ <<o.hash, o.index>> \in DOMAIN c.cells
    THEN c.cells[<<o.hash, o.index>>]
    ELSE Unknown

\* block.cal_uncles_hash(): the zero hash for no uncles, else a hash of
\* the uncle header hashes in order.
RECURSIVE HashesCode(_)
HashesCode(hs) ==
    IF hs = <<>> THEN 0 ELSE (Head(hs) + 1) + 100 * HashesCode(Tail(hs))

cal_uncles_hash(uncles) ==
    IF uncles = <<>> THEN 0
    ELSE 200 + HashesCode([i \in DOMAIN uncles |-> uncles[i].header.hash])

\* ------------------------------------------------- header verification
\* The resolver looking up the header's own hash instead of its parent's.
HeaderResolverOwnHash(header, c) ==
    [header |-> header, parent |-> chain_block_header(c, header.hash)]

\* HeaderResolverWrapper::new: the parent is looked up in the chain once.
HeaderResolverWrapper(header, c) ==
    [header |-> header, parent |-> chain_block_header(c, header.parent_hash)]

\* HeaderResolverWrapper::calculate_difficulty
resolver_calculate_difficulty(resolver, c) ==
    IF resolver.parent = None THEN None
    ELSE chain_calculate_difficulty(c, resolver.parent[1])

\* pow.verify(header): the proof of work of this model is valid for nonce 1.
pow_verify(header) == header.nonce = 1

\* HeaderVerifier::new(resolver, pow).verify(): the parent must be known,
\* the difficulty must be the recomputed one, the proof of work valid.
HeaderVerify(resolver, c) ==
    IF resolver.parent = None
    THEN ErrHeader("UnknownParent", <<resolver.header.parent_hash>>)
    ELSE IF resolver_calculate_difficulty(resolver, c)
                # Some(resolver.header.difficulty)
    THEN ErrHeader("Difficulty", <<>>)
    ELSE IF ~pow_verify(resolver.header)
    THEN ErrHeader("Pow", <<>>)
    ELSE Ok

\* ------------------------------------------------------- uncles verifier
\* a - b on block numbers (u64).  With overflow checks a negative
\* difference panics; without them it wraps.
NumberSub(a, b, checked) ==
    IF a >= b THEN [st |-> "ok", v |-> a - b]
    ELSE IF checked THEN [st |-> "panic", v |-> 0]
    ELSE [st |-> "ok", v |-> (a - b) % NumberModulus]

\* self.block.number().saturating_sub(uncle.number())
UncleDepth(b, uncle) ==
    IF b.header.number >= uncle.header.number
    THEN b.header.number - uncle.header.number
    ELSE 0

\* depth > max_uncles_age || depth < 1
DepthOutOfRange(depth, max_uncles_age) ==
    depth > max_uncles_age \/ depth < 1

\* The InvalidDepth error built for an uncle: min, then max, then actual.
InvalidDepthError(b, c, uncle, checked) ==
    LET min == NumberSub(b.header.number, c.max_uncles_age, checked)
        max == NumberSub(b.header.number, 1, checked)
    IN  IF min.st = "panic" \/ max.st = "panic" THEN Panic
        ELSE ErrUncles("InvalidDepth",
                       <<min.v, max.v, uncle.header.number>>)

\* The depth loop: the error of the first uncle out of range, else Ok.
RECURSIVE DepthLoop(_, _, _, _)
DepthLoop(b, c, uncles, checked) ==
    IF uncles = <<>> THEN Ok
    ELSE IF DepthOutOfRange(UncleDepth(b, Head(uncles)), c.max_uncles_age)
    THEN InvalidDepthError(b, c, Head(uncles), checked)
    ELSE DepthLoop(b, c, Tail(uncles), checked)

\* The empty list let through before its hash is compared.
UnclesHashLenEmptyFirst(b, c) ==
    LET actual_uncles_hash == cal_uncles_hash(b.uncles)
    IN  IF b.uncles = <<>> THEN Ok
        ELSE IF actual_uncles_hash # b.header.uncles_hash
        THEN ErrUncles("InvalidHash",
                       <<b.header.uncles_hash, actual_uncles_hash>>)
        ELSE IF Len(b.uncles) > c.max_uncles_len
        THEN ErrUncles("OverLength", <<c.max_uncles_len, Len(b.uncles)>>)
        ELSE Ok

\* The uncles-hash, emptiness and length checks that open verify().
UnclesHashLen(b, c) ==
    LET actual_uncles_hash == cal_uncles_hash(b.uncles)
    IN  IF actual_uncles_hash # b.header.uncles_hash
        THEN ErrUncles("InvalidHash",
                       <<b.header.uncles_hash, actual_uncles_hash>>)
        ELSE IF b.uncles = <<>> THEN Ok
        ELSE IF Len(b.uncles) > c.max_uncles_len
        THEN ErrUncles("OverLength", <<c.max_uncles_len, Len(b.uncles)>>)
        ELSE Ok

\* The exclusion set before the ancestor walk.
ExcludedSeed(b) == {b.header.hash, b.header.parent_hash}

\* A visited ancestor adding its parent only, not the uncles it declares.
ExcludedOfParentOnly(ancestor) == {ancestor.header.parent_hash}

\* What one visited ancestor adds to the exclusion set.
ExcludedOf(ancestor) ==
    {ancestor.header.parent_hash}
        \cup {ancestor.uncles[i].header.hash : i \in DOMAIN ancestor.uncles}

\* The per-uncle checks without the look into the included set.
UncleCheckNoDuplicate(c, uncle, incl, excl) ==
    IF uncle.header.cellbase_id # uncle.cellbase.hash
    THEN ErrUncles("InvalidCellbase", <<>>)
    ELSE IF uncle.header.hash \in excl
    THEN ErrUncles("InvalidInclude", <<uncle.header.hash>>)
    ELSE Ok

\* The per-uncle checks of the second loop, against the sets so far.
UncleCheck(c, uncle, incl, excl) ==
    IF uncle.header.cellbase_id # uncle.cellbase.hash
    THEN ErrUncles("InvalidCellbase", <<>>)
    ELSE LET uncle_hash == uncle.header.hash
         IN  IF uncle_hash \in incl
             THEN ErrUncles("Duplicate", <<uncle_hash>>)
             ELSE IF uncle_hash \in excl
             THEN ErrUncles("InvalidInclude", <<uncle_hash>>)
             ELSE HeaderVerify(HeaderResolverWrapper(uncle.header, c), c)

\* ------------------------------------------------- transactions verifier
\* The index built without the first transaction, as if the cellbase
\* produced no outputs.
OutputIndexsSkippingFirst(b) ==
    [h \in {b.transactions[i].hash : i \in DOMAIN b.transactions \ {1}} |->
        CHOOSE i \in DOMAIN b.transactions \ {1} :
            /\ b.transactions[i].hash = h
            /\ \A j \in DOMAIN b.transactions \ {1} :
                   b.transactions[j].hash = h => j <= i]

\* TransactionsVerifier::new: every transaction hash to its position (here
\* 1-based); a later transaction with the same hash overwrites an earlier.
OutputIndexs(b) ==
    [h \in Range(TxHashes(b)) |->
        CHOOSE i \in DOMAIN b.transactions :
            /\ b.transactions[i].hash = h
            /\ \A j \in DOMAIN b.transactions :
                   b.transactions[j].hash = h => j <= i]

\* TransactionsVerifier::cell_at
cell_at(b, c, indexs, o, parent) ==
    IF o.hash \in DOMAIN indexs
    THEN LET outputs == b.transactions[indexs[o.hash]].outputs
         IN  IF o.index + 1 \in DOMAIN outputs
             THEN CellState("Head", outputs[o.index + 1])
             ELSE Unknown
    ELSE chain_cell_at(c, o, parent)

\* Whether cell_at asks the chain for o.
cell_at_delegates(indexs, o) == o.hash \notin DOMAIN indexs

\* CellProvider::resolve_transaction_at: the state of every input as of
\* `parent`.
resolve_transaction_at(b, c, indexs, tx, parent) ==
    [transaction |-> tx,
     input_cells |-> [k \in DOMAIN tx.inputs |->
                         cell_at(b, c, indexs, tx.inputs[k].previous_output,
                                 parent)]]

\* TransactionVerifier::new(&rtx).verify(): the external per-transaction
\* verifier.  It rejects an input that is not live, and the transactions
\* whose scripts fail (fails: their hashes).
TransactionVerify(rtx, fails) ==
    IF \E k \in DOMAIN rtx.input_cells : rtx.input_cells[k].state = "Unknown"
    THEN "UnknownInput"
    ELSE IF \E k \in DOMAIN rtx.input_cells : rtx.input_cells[k].state = "Tail"
    THEN "DoubleSpent"
    ELSE IF rtx.transaction.hash \in fails THEN "InvalidScript"
    ELSE "Ok"

\* The transactions the parallel iterator hands out: all but the first.
Skip1(txs) == IF txs = <<>> THEN <<>> ELSE Tail(txs)

\* enumerate(): the index given to the k-th element handed out.
EnumerateIndex(k) == k - 1

\* collect(): the (index, error) pairs of the failed outcomes, in the
\* order of the elements whatever the order the workers finished in.
RECURSIVE CollectErrors(_, _)
CollectErrors(outs, k) ==
    IF k > Len(outs) THEN <<>>
    ELSE (IF outs[k].verdict = "Ok" THEN <<>>
          ELSE << <<EnumerateIndex(k), outs[k].verdict>> >>)
         \o CollectErrors(outs, k + 1)

\* ------------------------------------------------- verify() as a function
\* The value of each verify() as a function of the block and the chain,
\* for callers that use the call as one step.
\* UnclesVerifier::verify: the exclusion set after n more steps of the
\* ancestor walk from `hash`.
RECURSIVE WalkExcluded(_, _, _, _)
WalkExcluded(c, hash, n, excl) ==
    IF n = 0 \/ chain_block(c, hash) = None THEN excl
    ELSE LET found == chain_block(c, hash)[1]
         IN  WalkExcluded(c, found.header.parent_hash, n - 1,
                          excl \cup ExcludedOf(found))

\* UnclesVerifier::verify: the per-uncle loop from the given sets on.
RECURSIVE UnclesLoop(_, _, _, _)
UnclesLoop(c, uncles, incl, excl) ==
    IF uncles = <<>> THEN Ok
    ELSE LET r == UncleCheck(c, Head(uncles), incl, excl)
         IN  IF r # Ok THEN r
             ELSE UnclesLoop(c, Tail(uncles),
                             incl \cup {Head(uncles).header.hash}, excl)

\* UnclesVerifier::verify
UnclesVerify(b, c, checked) ==
    LET first == UnclesHashLen(b, c)
        depth == DepthLoop(b, c, b.uncles, checked)
    IN  IF first # Ok \/ b.uncles = <<>> THEN first
        ELSE IF depth # Ok THEN depth
        ELSE UnclesLoop(c, b.uncles, {},
                        WalkExcluded(c, b.header.parent_hash, c.max_uncles_age,
                                     ExcludedSeed(b)))

\* The inputs resolved as of the candidate itself, which no chain holds
\* yet, instead of as of its parent.
TransactionsVerifyAsOfSelf(b, c, fails) ==
    LET rest == Skip1(b.transactions)
        outs == [k \in DOMAIN rest |->
                    [verdict |->
                        TransactionVerify(
                            resolve_transaction_at(b, c, OutputIndexs(b),
                                                   rest[k], b.header.hash),
                            fails)]]
        err == CollectErrors(outs, 1)
    IN  IF err = <<>> THEN Ok ELSE ErrTransaction(err)

\* TransactionsVerifier::verify
TransactionsVerify(b, c, fails) ==
    LET rest == Skip1(b.transactions)
        outs == [k \in DOMAIN rest |->
                    [verdict |->
                        TransactionVerify(
                            resolve_transaction_at(b, c, OutputIndexs(b),
                                                   rest[k], b.header.parent_hash),
                            fails)]]
        err == CollectErrors(outs, 1)
    IN  IF err = <<>> THEN Ok ELSE ErrTransaction(err)

\* BlockVerifier::verify: the first result in the fixed order that is
\* not Ok, else Ok.
BlockVerify(b, c, fails, checked) ==
    LET empty == EmptyTransactionsVerify(b)
        duplicate == DuplicateTransactionsVerify(b)
        cellbase == CellbaseTransactionsVerify(b, c, checked)
        merkle == MerkleRootVerify(b)
        uncles == UnclesVerify(b, c, checked)
    IN  IF empty # Ok THEN empty
        ELSE IF duplicate # Ok THEN duplicate
        ELSE IF cellbase # Ok THEN cellbase
        ELSE IF merkle # Ok THEN merkle
        ELSE IF uncles # Ok THEN uncles
        ELSE TransactionsVerify(b, c, fails)

\* ------------------------------------------------------------------ state
VARIABLES
    block,          \* the candidate block every verifier borrows
    chain,          \* the chain provider (store, consensus, fee and cell oracles)
    script_fails,   \* hashes of the transactions the external verifier rejects
    entry,          \* the verify() that was called: "block" or one sub-verifier
    pc,             \* the position of the call
    result,         \* what the call returned (Running until it returns)
    ran,            \* the sub-verifiers started so far, in order
    returned,       \* what each of them returned, in the same order
    excluded,       \* UnclesVerifier::verify: the exclusion set
    included,       \* UnclesVerifier::verify: the uncles accepted so far
    block_hash,     \* UnclesVerifier::verify: the cursor of the ancestor walk
    walk_i,         \* iterations of the ancestor walk done
    uncle_i,        \* position of the next uncle of the per-uncle loop
    output_indexs,  \* TransactionsVerifier.output_indexs
    outcomes,       \* the slot of each element of the parallel iterator
    reads,          \* the queries made to the chain provider so far
    node1,          \* relay: the sending node (its script, blocks and inbox)
    node2           \* relay: the receiving node (inbox, pool, pending, tip)

\* The variables of the verifiers and those of the two relay nodes.
verifier_vars ==
    <<block, chain, script_fails, entry, pc, result, ran, returned, excluded,
      included, block_hash, walk_i, uncle_i, output_indexs, outcomes, reads>>
relay_vars == <<node1, node2>>
vars == <<verifier_vars, relay_vars>>

\* A query to the chain provider.
Read(op, hash, index, at) ==
    [op |-> op, hash |-> hash, index |-> index, at |-> at]

\* ------------------------------------------------------------ the inputs
\* The header of a candidate: the fields of Header and the two commitments.
CandidateHeader(number, parent_hash, txs_commit, uncles_hash) ==
    [hash |-> 70 + number, number |-> number, parent_hash |-> parent_hash,
     cellbase_id |-> 0, difficulty |-> 1, nonce |-> 1,
     txs_commit |-> txs_commit, uncles_hash |-> uncles_hash]

Block(header, transactions, uncles) ==
    [header |-> header, transactions |-> transactions, uncles |-> uncles]

\* The candidate's own header offered as an uncle.
Self(number, parent_hash) ==
    UncleBlock(Header(70 + number, number, parent_hash, 0, 1, 1),
               Cellbase(number, <<>>))

\* The chain provider.
Chain(claiming, reward, fee, cells, max_uncles_len) ==
    [blocks |-> ChainBlocks(claiming), reward |-> reward, fee |-> fee,
     cells |-> cells, max_uncles_len |-> max_uncles_len,
     max_uncles_age |-> MaxUnclesAge]

NormalHashes == {tx.hash : tx \in NormalTxs}
NoFee == [h \in NormalHashes |-> 0]

\* The canonical cells: output 0 of transaction 90, live or unknown, and
\* output 0 of T1, unknown or already spent.
CellOracles ==
    {[o \in {<<90, 0>>, <<1, 0>>} |->
         IF o = <<90, 0>> THEN a ELSE b] :
        a \in {CellState("Head", 2), Unknown},
        b \in {Unknown, CellState("Tail", 0)}}
LiveCells ==
    [o \in {<<90, 0>>, <<1, 0>>} |->
        IF o = <<90, 0>> THEN CellState("Head", 2) ELSE Unknown]

\* A commitment that is not the merkle root of the transactions.
WrongRoot(txs) == IF txs = <<>> THEN <<7>> ELSE <<0>>

\* The transactions blocks are built from, and their hashes.
TxsDrawn == {Cellbase(2, <<1>>), Cellbase(1, <<>>)} \cup NormalTxs
HashesDrawn == {tx.hash : tx \in TxsDrawn}
\* The hash lists that differ from hs in the hash of one transaction.
OneHashChanged(hs) ==
    {[hs EXCEPT ![i] = h] : i \in DOMAIN hs, h \in HashesDrawn} \ {hs}
\* The hash lists that hold the hashes of hs in another order.
Reordered(hs) ==
    {[i \in DOMAIN hs |-> hs[p[i]]] : p \in Permutations(DOMAIN hs)} \ {hs}
\* Commitments produced for a list that is one such change away from the
\* block's own: the header was built for a block one of whose
\* transactions has been replaced, or whose transactions were reordered.
StaleRoots(hs) == {merkle_root(h) : h \in OneHashChanged(hs) \cup Reordered(hs)}
\* An uncles hash that is not the hash of the uncles.
WrongUnclesHash(uncles) == IF uncles = <<>> THEN cal_uncles_hash(<<Side(1)>>) ELSE 0

\* The parent hashes drawn for a candidate at `number`: the main block
\* below it, or a hash the store does not hold.
ParentsOf(number) == {IF number = 0 THEN 0 ELSE MainHash(number - 1), 99}

\* The uncles drawn for a candidate at `number`.
UnclesOf(number, parent_hash) ==
    {Side(k) : k \in {k \in 1 .. MaxNumber + 1 :
                        number - k \in -1 .. MaxUnclesAge + 1}}
    \cup {Anc(k) : k \in {k \in MainNumbers :
                        number - k \in 1 .. MaxUnclesAge + 1}}
    \cup (IF number >= 2
          THEN {BadCellbase(number - 1), BadPow(number - 1),
                BadDifficulty(number - 1), Orphan(number - 1)}
          ELSE {})
    \cup {Self(number, parent_hash)}

\* Transaction lists of every shape: no, one or several cellbases (of this
\* or of another height) at any position, repeated transactions,
\* transactions spending outputs of the same block; any of the block's
\* non-cellbase transactions may fail its scripts.
InitStructure ==
    \E txs \in SeqsOf(TxsDrawn, 0, MaxTxs),
       e \in {"block", "empty", "duplicate", "cellbase", "merkle",
              "transactions"} :
      \E commit \in {merkle_root([i \in DOMAIN txs |-> txs[i].hash])}
                      \cup (IF e \in {"block", "merkle"}
                            THEN {WrongRoot(txs)} ELSE {})
                      \cup (IF e = "merkle"
                            THEN StaleRoots([i \in DOMAIN txs |-> txs[i].hash])
                            ELSE {}),
         uncles \in {<<>>} \cup (IF e = "block" THEN {<<Anc(1)>>} ELSE {}),
         cells \in IF e \in {"block", "transactions"}
                   THEN CellOracles ELSE {LiveCells},
         fails \in IF e \in {"block", "transactions"}
                   THEN SUBSET (NormalHashes \cap {txs[i].hash : i \in DOMAIN txs})
                   ELSE {{}} :
        /\ block = Block(CandidateHeader(2, MainHash(1), commit,
                                         cal_uncles_hash(uncles)),
                         txs, uncles)
        /\ chain = Chain(FALSE, 1, NoFee, cells, MaxUncles)
        /\ script_fails = fails
        /\ entry = e

\* Cellbase economics: a cellbase at index 0 with the sentinel input of
\* the block's height or of the height below, every combination of
\* output capacities, block reward and fees (or a failing fee
\* computation).
CapacityValues == {0, 1, CapacityMax}
InitCellbase ==
    \E outs \in SeqsOf(CapacityValues, 0, 2),
       sentinel_number \in {2, 1},
       rest \in SeqsOf({T1, T2}, 0, MaxTxs - 1),
       reward \in CapacityValues,
       f1 \in CapacityValues \cup {-1},
       f2 \in CapacityValues \cup {-1} :
        LET txs == <<Cellbase(sentinel_number, outs)>> \o rest
        IN  /\ block = Block(CandidateHeader(2, MainHash(1),
                                merkle_root([i \in DOMAIN txs |-> txs[i].hash]),
                                cal_uncles_hash(<<>>)),
                             txs, <<>>)
            /\ chain = Chain(FALSE, reward,
                             [h \in NormalHashes |->
                                 IF h = T1.hash THEN f1
                                 ELSE IF h = T2.hash THEN f2 ELSE 0],
                             LiveCells, MaxUncles)
            /\ script_fails = {}
            /\ entry = "cellbase"

\* Uncle lists: a candidate at every number on a known or unknown parent,
\* with every list of uncle candidates, a right or wrong uncles hash, a
\* chain whose blocks have or have not declared uncles themselves.  Lists
\* of several uncles are given to UnclesVerifier on a stored parent; the
\* whole BlockVerifier, and a candidate on an unknown parent, get at most
\* one uncle.
InitUncles ==
    \E number \in 0 .. MaxNumber, e \in {"uncles", "block"} :
      \E parent_hash \in ParentsOf(number) :
        \E uncles \in SeqsOf(UnclesOf(number, parent_hash), 0,
                             IF e = "block" \/ parent_hash = 99
                             THEN 1 ELSE MaxUncles),
           claiming \in BOOLEAN,
           max_uncles_len \in {MaxUncles - 1, MaxUncles} :
          \E uncles_hash \in {cal_uncles_hash(uncles)}
                               \cup (IF e = "uncles"
                                     THEN {WrongUnclesHash(uncles)} ELSE {}) :
            LET txs == <<Cellbase(number, <<1>>)>>
            IN  /\ block = Block(CandidateHeader(number, parent_hash,
                                    merkle_root(<<txs[1].hash>>), uncles_hash),
                                 txs, uncles)
                /\ chain = Chain(claiming, 1, NoFee, LiveCells, max_uncles_len)
                /\ script_fails = {}
                /\ entry = e

\* The state after BlockVerifier::new (or one sub-verifier's new): the
\* verifiers hold the block and the chain, the index of the block's own
\* transactions is built, nothing has run.
Init ==
    /\ (InitStructure \/ InitCellbase \/ InitUncles)
    /\ pc = IF entry = "block" THEN "empty" ELSE entry
    /\ result = Running
    /\ ran = <<>>
    /\ returned = <<>>
    /\ excluded = {}
    /\ included = {}
    /\ block_hash = 0
    /\ walk_i = 0
    /\ uncle_i = 1
    /\ output_indexs = OutputIndexs(block)
    /\ outcomes = <<>>
    /\ reads = {}
    /\ node1 = [script |-> <<>>, blocks |-> <<>>, inbox |-> <<>>]
    /\ node2 = [inbox |-> <<>>, pool |-> {}, pending |-> <<>>, tip |-> 0,
                accepted |-> <<>>]

\* -------------------------------------------------------- orchestration
\* BlockVerifier::verify: the check that follows each check.
NextStage(name) ==
    CASE name = "empty" -> "duplicate"
      [] name = "duplicate" -> "cellbase"
      [] name = "cellbase" -> "merkle"
      [] name = "merkle" -> "uncles"
      [] name = "uncles" -> "transactions"

\* Return without the `?`: the error of a check is dropped and the next
\* check runs.
ReturnDroppingError(name, r) ==
    /\ returned' = Append(returned, r)
    /\ IF entry = "block" /\ name # "transactions"
       THEN /\ pc' = NextStage(name)
            /\ result' = result
       ELSE /\ pc' = "done"
            /\ result' = r

\* Sub-verifier `name` returns r.  Under BlockVerifier::verify `?` passes
\* an Ok on to the next check and returns anything else at once; the last
\* check's value is the value of the call.  Called on its own, the
\* sub-verifier's value is the value of the call.
Return(name, r) ==
    /\ returned' = Append(returned, r)
    /\ IF r = Ok /\ entry = "block" /\ name # "transactions"
       THEN /\ pc' = NextStage(name)
            /\ result' = result
       ELSE /\ pc' = "done"
            /\ result' = r

\* The call goes on inside the same sub-verifier, at position p.
Continue(p) ==
    /\ pc' = p
    /\ result' = result
    /\ returned' = returned

\* self.empty_transactions.verify()
EmptyTransactions ==
    /\ pc = "empty"
    /\ ran' = Append(ran, "empty")
    /\ Return("empty", EmptyTransactionsVerify(block))
    /\ UNCHANGED relay_vars
    /\ UNCHANGED <<block, chain, script_fails, entry, excluded, included,
                   block_hash, walk_i, uncle_i, output_indexs, outcomes, reads>>

\* self.duplicate_transactions.verify()
DuplicateTransactions ==
    /\ pc = "duplicate"
    /\ ran' = Append(ran, "duplicate")
    /\ Return("duplicate", DuplicateTransactionsVerify(block))
    /\ UNCHANGED relay_vars
    /\ UNCHANGED <<block, chain, script_fails, entry, excluded, included,
                   block_hash, walk_i, uncle_i, output_indexs, outcomes, reads>>

\* The chain queries of CellbaseTransactionsVerifier::verify: none before
\* the cellbase's input has been checked, then the reward and the fees.
CellbaseReads(b, c, checked) ==
    IF /\ b.transactions # <<>>
       /\ CellbaseLen(b) = 1
       /\ is_cellbase(b.transactions[1])
       /\ b.transactions[1].inputs[1] = new_cellbase_input(b.header.number)
    THEN {Read("block_reward", 0, b.header.number, 0)}
         \cup {Read("calculate_transaction_fee", h, 0, 0) :
                 h \in FeeQueried(c, Tail(b.transactions), 0, checked)}
    ELSE {}

\* self.cellbase.verify(), in a build with or without overflow checks
Cellbase_ ==
    /\ pc = "cellbase"
    /\ ran' = Append(ran, "cellbase")
    /\ \E checked \in BOOLEAN :
        /\ Return("cellbase", CellbaseTransactionsVerify(block, chain, checked))
        /\ reads' = reads \cup CellbaseReads(block, chain, checked)
    /\ UNCHANGED relay_vars
    /\ UNCHANGED <<block, chain, script_fails, entry, excluded, included,
                   block_hash, walk_i, uncle_i, output_indexs, outcomes>>

\* self.merkle_root.verify()
MerkleRoot ==
    /\ pc = "merkle"
    /\ ran' = Append(ran, "merkle")
    /\ Return("merkle", MerkleRootVerify(block))
    /\ UNCHANGED relay_vars
    /\ UNCHANGED <<block, chain, script_fails, entry, excluded, included,
                   block_hash, walk_i, uncle_i, output_indexs, outcomes, reads>>

\* self.uncles.verify(), to the end of the length check
UnclesStart ==
    /\ pc = "uncles"
    /\ ran' = Append(ran, "uncles")
    /\ LET r == UnclesHashLen(block, chain)
       IN  IF r # Ok \/ block.uncles = <<>>
           THEN Return("uncles", r)
           ELSE Continue("uncles_depth")
    /\ UNCHANGED relay_vars
    /\ UNCHANGED <<block, chain, script_fails, entry, excluded, included,
                   block_hash, walk_i, uncle_i, output_indexs, outcomes, reads>>

\* The depth loop; when it passes, the two sets are created and the walk
\* starts at the candidate's parent.
UnclesDepth ==
    /\ pc = "uncles_depth"
    /\ \E checked \in BOOLEAN :
        LET r == DepthLoop(block, chain, block.uncles, checked)
        IN  IF r # Ok
            THEN /\ Return("uncles", r)
                 /\ UNCHANGED <<excluded, included, block_hash, walk_i>>
            ELSE /\ excluded' = ExcludedSeed(block)
                 /\ included' = {}
                 /\ block_hash' = block.header.parent_hash
                 /\ walk_i' = 0
                 /\ Continue(IF chain.max_uncles_age > 0
                             THEN "uncles_walk" ELSE "uncles_each")
    /\ UNCHANGED relay_vars
    /\ UNCHANGED <<block, chain, script_fails, entry, ran, uncle_i,
                   output_indexs, outcomes, reads>>

\* The walk as `while let Some(block) = chain.block(..)`: it goes on for
\* as long as the store holds the next ancestor.
UnclesWalkUnbounded ==
    /\ pc = "uncles_walk"
    /\ walk_i' = walk_i + 1
    /\ reads' = reads \cup {Read("block", block_hash, 0, 0)}
    /\ LET found == chain_block(chain, block_hash)
       IN  IF found = None
           THEN /\ Continue("uncles_each")
                /\ UNCHANGED <<excluded, block_hash>>
           ELSE /\ excluded' = excluded \cup ExcludedOf(found[1])
                /\ block_hash' = found[1].header.parent_hash
                /\ Continue("uncles_walk")
    /\ UNCHANGED relay_vars
    /\ UNCHANGED <<block, chain, script_fails, entry, ran, included,
                   uncle_i, output_indexs, outcomes>>

\* One iteration of `for _ in 0..max_uncles_age`: one block lookup.
UnclesWalk ==
    /\ pc = "uncles_walk"
    /\ walk_i < chain.max_uncles_age
    /\ walk_i' = walk_i + 1
    /\ reads' = reads \cup {Read("block", block_hash, 0, 0)}
    /\ LET found == chain_block(chain, block_hash)
       IN  IF found = None
           THEN /\ Continue("uncles_each")
                /\ UNCHANGED <<excluded, block_hash>>
           ELSE /\ excluded' = excluded \cup ExcludedOf(found[1])
                /\ block_hash' = found[1].header.parent_hash
                /\ Continue(IF walk_i + 1 < chain.max_uncles_age
                            THEN "uncles_walk" ELSE "uncles_each")
    /\ UNCHANGED relay_vars
    /\ UNCHANGED <<block, chain, script_fails, entry, ran, included,
                   uncle_i, output_indexs, outcomes>>

\* Whether the per-uncle checks reach header verification, which looks
\* the uncle's parent up.
ReachesHeaderVerify(uncle, incl, excl) ==
    /\ uncle.header.cellbase_id = uncle.cellbase.hash
    /\ uncle.header.hash \notin incl
    /\ uncle.header.hash \notin excl

\* One iteration of the per-uncle loop; after the last uncle, Ok.
UnclesEach ==
    /\ pc = "uncles_each"
    /\ LET uncle == block.uncles[uncle_i]
           r == UncleCheck(chain, uncle, included, excluded)
       IN  /\ reads' = reads \cup
                 IF ReachesHeaderVerify(uncle, included, excluded)
                 THEN {Read("block_header", uncle.header.parent_hash, 0, 0)}
                 ELSE {}
           /\ IF r # Ok
              THEN /\ Return("uncles", r)
                   /\ UNCHANGED <<included, uncle_i>>
              ELSE /\ included' = included \cup {uncle.header.hash}
                   /\ uncle_i' = uncle_i + 1
                   /\ IF uncle_i = Len(block.uncles)
                      THEN Return("uncles", Ok)
                      ELSE Continue("uncles_each")
    /\ UNCHANGED relay_vars
    /\ UNCHANGED <<block, chain, script_fails, entry, ran, excluded,
                   block_hash, walk_i, output_indexs, outcomes>>

\* An element's slot before a worker has taken the element.
Pending == [done |-> FALSE, cells |-> <<>>, verdict |-> ""]

\* self.transactions.verify(): the parallel iterator over all but the
\* first transaction is set up.
TransactionsStart ==
    /\ pc = "transactions"
    /\ ran' = Append(ran, "transactions")
    /\ outcomes' = [k \in 1 .. Len(Skip1(block.transactions)) |-> Pending]
    /\ Continue("transactions_join")
    /\ UNCHANGED relay_vars
    /\ UNCHANGED <<block, chain, script_fails, entry, excluded,
                   included, block_hash, walk_i, uncle_i, output_indexs, reads>>

\* The chain queries of resolving tx as of `parent`.
ResolveReads(indexs, tx, parent) ==
    {Read("cell_at", tx.inputs[k].previous_output.hash,
          tx.inputs[k].previous_output.index, parent) :
        k \in {k \in DOMAIN tx.inputs :
                 cell_at_delegates(indexs, tx.inputs[k].previous_output)}}

\* The hash the inputs are resolved as of.
ResolveAsOf(b) == b.header.parent_hash

\* A worker that consumes what it resolves: the canonical cells its
\* transaction spends are marked spent in the chain state.
TransactionWorkerSpending(k) ==
    /\ pc = "transactions_join"
    /\ ~outcomes[k].done
    /\ LET tx == Skip1(block.transactions)[k]
           rtx == resolve_transaction_at(block, chain, output_indexs, tx,
                                         ResolveAsOf(block))
       IN  /\ outcomes' = [outcomes EXCEPT ![k] =
                              [done |-> TRUE, cells |-> rtx.input_cells,
                               verdict |-> TransactionVerify(rtx, script_fails)]]
           /\ reads' = reads \cup ResolveReads(output_indexs, tx,
                                               ResolveAsOf(block))
           /\ chain' = [chain EXCEPT !.cells =
                  [o \in DOMAIN @ |->
                      IF \E j \in DOMAIN tx.inputs :
                            /\ <<tx.inputs[j].previous_output.hash,
                                 tx.inputs[j].previous_output.index>> = o
                            /\ rtx.input_cells[j].state = "Head"
                      THEN CellState("Tail", 0) ELSE @[o]]]
    /\ UNCHANGED relay_vars
    /\ UNCHANGED <<block, script_fails, entry, pc, result, ran,
                   returned, excluded, included, block_hash, walk_i, uncle_i,
                   output_indexs>>

\* A worker takes element k, whichever is still untaken: it resolves the
\* transaction and runs the external verifier on it.
TransactionWorker(k) ==
    /\ pc = "transactions_join"
    /\ ~outcomes[k].done
    /\ LET tx == Skip1(block.transactions)[k]
           rtx == resolve_transaction_at(block, chain, output_indexs, tx,
                                         ResolveAsOf(block))
       IN  /\ outcomes' = [outcomes EXCEPT ![k] =
                              [done |-> TRUE, cells |-> rtx.input_cells,
                               verdict |-> TransactionVerify(rtx, script_fails)]]
           /\ reads' = reads \cup ResolveReads(output_indexs, tx,
                                               ResolveAsOf(block))
    /\ UNCHANGED relay_vars
    /\ UNCHANGED <<block, chain, script_fails, entry, pc, result, ran,
                   returned, excluded, included, block_hash, walk_i, uncle_i,
                   output_indexs>>

\* The join: every element is done, the errors are collected.
TransactionsCollect ==
    /\ pc = "transactions_join"
    /\ \A k \in DOMAIN outcomes : outcomes[k].done
    /\ LET err == CollectErrors(outcomes, 1)
       IN  Return("transactions",
                  IF err = <<>> THEN Ok ELSE ErrTransaction(err))
    /\ UNCHANGED relay_vars
    /\ UNCHANGED <<block, chain, script_fails, entry, ran, excluded,
                   included, block_hash, walk_i, uncle_i, output_indexs,
                   outcomes, reads>>

Next ==
    \/ EmptyTransactions
    \/ DuplicateTransactions
    \/ Cellbase_
    \/ MerkleRoot
    \/ UnclesStart
    \/ UnclesDepth
    \/ UnclesWalk
    \/ UnclesEach
    \/ TransactionsStart
    \/ \E k \in DOMAIN outcomes : TransactionWorker(k)
    \/ TransactionsCollect

Spec == Init /\ [][Next]_vars

\* ------------------------------------------------------------------ relay
\* Two connected nodes whose chains both stand at height RelayHeight
\* (setup_node(3)).  node1 broadcasts transactions and two compact blocks;
\* node2 rebuilds each block, has BlockVerifier verify it and extends its
\* chain.  `chain` is node2's chain, `block` the last block it rebuilt and
\* `result` what verify() said of it.
RelayHeight == 3
\* The most transactions node1 builds.
MaxRelayTxs == 3

\* The transactions node1 builds: number i spends output i of the cellbase
\* of the tip block.
RelayTx(i) ==
    [hash |-> 30 + i,
     inputs |-> <<CellInput(Cellbase(RelayHeight, <<>>).hash, i)>>,
     outputs |-> <<1>>]
RelayTxs(n) == [i \in 1 .. n |-> RelayTx(i - 1)]

\* tx.proposal_short_id(): the low bits of the hash.
proposal_short_id(tx) == tx.hash % 16

\* The block node1 builds on `parent` at `number` with the given committed
\* transactions after its cellbase.
RelayBlock(number, parent, txs) ==
    LET all == <<Cellbase(number, <<0>>)>> \o txs
    IN  Block(CandidateHeader(number, parent,
                              merkle_root([i \in DOMAIN all |-> all[i].hash]),
                              cal_uncles_hash(<<>>)),
              all, <<>>)

\* The messages of the relay protocol.
TransactionMsg(tx) == [kind |-> "transaction", tx |-> tx]
\* build_compact_block(block, {}): the header, the cellbase in full, the
\* short ids of the other committed transactions, the proposals.
CompactBlockMsg(b, proposals) ==
    [kind |-> "compact_block", header |-> b.header,
     prefilled |-> b.transactions[1],
     short_ids |-> [i \in 1 .. Len(b.transactions) - 1 |->
                       proposal_short_id(b.transactions[i + 1])],
     proposals |-> proposals]
GetBlockTransactionsMsg(hash, indexes) ==
    [kind |-> "get_block_transactions", hash |-> hash, indexes |-> indexes]
BlockTransactionsMsg(hash, txs) ==
    [kind |-> "block_transactions", hash |-> hash, txs |-> txs]

\* The chain both nodes start from: the main chain up to RelayHeight, the
\* outputs of the tip's cellbase live, every fee zero.
RelayChain(n) ==
    [blocks |-> [h \in {MainHash(k) : k \in 0 .. RelayHeight} |->
                    [header |-> MainHeader(h - 10), uncles |-> <<>>]],
     reward |-> 1,
     fee |-> [h \in {RelayTx(i).hash : i \in 0 .. n - 1} |-> 0],
     cells |-> [o \in {<<Cellbase(RelayHeight, <<>>).hash, i>> :
                          i \in 0 .. n - 1} |-> CellState("Head", 1)],
     max_uncles_len |-> MaxUncles,
     max_uncles_age |-> MaxUnclesAge]

\* The elements of s at the positions in S, in order.
RECURSIVE Pick(_, _, _)
Pick(s, S, k) ==
    IF k > Len(s) THEN <<>>
    ELSE (IF k \in S THEN <<s[k]>> ELSE <<>>) \o Pick(s, S, k + 1)

\* The state of two nodes at RelayHeight: node1 is about to broadcast
\* the transactions `sent` of its n transactions, then the block that
\* proposes all n, then the block that commits them.
RelayInit ==
    \E n \in 0 .. MaxRelayTxs :
      \E sent \in SUBSET (1 .. n) :
        LET txs == RelayTxs(n)
            block4 == RelayBlock(RelayHeight + 1, MainHash(RelayHeight), <<>>)
            block5 == RelayBlock(RelayHeight + 2, block4.header.hash, txs)
            announced == Pick(txs, sent, 1)
        IN  /\ node1 =
                 [script |->
                      [i \in DOMAIN announced |-> TransactionMsg(announced[i])]
                      \o <<CompactBlockMsg(block4,
                               {proposal_short_id(txs[i]) : i \in DOMAIN txs}),
                           CompactBlockMsg(block5, {})>>,
                  blocks |-> (block4.header.hash :> block4)
                             @@ (block5.header.hash :> block5),
                  inbox |-> <<>>]
            /\ node2 = [inbox |-> <<>>, pool |-> {}, pending |-> <<>>,
                        tip |-> MainHash(RelayHeight), accepted |-> <<>>]
            /\ chain = RelayChain(n)
            /\ block = RelayBlock(RelayHeight, MainHash(RelayHeight - 1), <<>>)
            /\ script_fails = {}
            /\ entry = "block"
            /\ pc = "done"
            /\ result = Ok
            /\ ran = <<>>
            /\ returned = <<>>
            /\ excluded = {}
            /\ included = {}
            /\ block_hash = 0
            /\ walk_i = 0
            /\ uncle_i = 1
            /\ output_indexs = OutputIndexs(block)
            /\ outcomes = <<>>
            /\ reads = {}

\* What the relay steps leave alone of the verifiers' variables.
RelayFrame ==
    UNCHANGED <<script_fails, entry, pc, ran, returned, excluded, included,
                block_hash, walk_i, uncle_i, outcomes, reads>>

\* node1.broadcast(..): the next message of the script goes to node2.
Broadcast ==
    /\ node1.script # <<>>
    /\ node1' = [node1 EXCEPT !.script = Tail(@)]
    /\ node2' = [node2 EXCEPT !.inbox = Append(@, Head(node1.script))]
    /\ RelayFrame
    /\ UNCHANGED <<block, chain, result, output_indexs>>

\* node2 receives a transaction: it goes to the pool.
ReceiveTransaction ==
    /\ node2.inbox # <<>>
    /\ Head(node2.inbox).kind = "transaction"
    /\ node2' = [node2 EXCEPT !.inbox = Tail(@),
                              !.pool = @ \cup {Head(node2.inbox).tx}]
    /\ RelayFrame
    /\ UNCHANGED <<node1, block, chain, result, output_indexs>>

\* The transactions of the pool with the given short id.
PoolTxs(pool, id) == {tx \in pool : proposal_short_id(tx) = id}

\* The positions of a compact block's short ids the pool cannot fill.
MissingIndexes(pool, short_ids) ==
    {i \in DOMAIN short_ids : PoolTxs(pool, short_ids[i]) = {}}

\* The block rebuilt from a compact block: the prefilled cellbase, then
\* for every short id the pool's transaction, or for the missing
\* positions the retrieved transactions in order.
Reconstruct(m, pool, missing, retrieved) ==
    Block(m.header,
          <<m.prefilled>> \o
              [i \in DOMAIN m.short_ids |->
                  IF i \in missing
                  THEN retrieved[Cardinality({j \in missing : j <= i})]
                  ELSE CHOOSE tx \in PoolTxs(pool, m.short_ids[i]) : TRUE],
          <<>>)

\* process_block: the block is stored and the cells its transactions
\* spend are spent.
ProcessBlock(c, b) ==
    [c EXCEPT
        !.blocks = @ @@ (b.header.hash :>
                            [header |-> Header(b.header.hash, b.header.number,
                                               b.header.parent_hash,
                                               b.transactions[1].hash,
                                               b.header.difficulty,
                                               b.header.nonce),
                             uncles |-> b.uncles]),
        !.cells = [o \in DOMAIN @ |->
                      IF \E i \in DOMAIN b.transactions :
                            \E j \in DOMAIN b.transactions[i].inputs :
                               LET p == b.transactions[i].inputs[j].previous_output
                               IN  <<p.hash, p.index>> = o
                      THEN CellState("Tail", 0) ELSE @[o]]]

\* node2 has rebuilt b: BlockVerifier verifies it against node2's chain,
\* and a block that passes on top of the tip extends the chain.  n2 is
\* node2 with the message taken off its inbox.
VerifyAndExtend(b, n2) ==
    \E checked \in BOOLEAN :
        LET r == BlockVerify(b, chain, script_fails, checked)
        IN  /\ block' = b
            /\ output_indexs' = OutputIndexs(b)
            /\ result' = r
            /\ IF r = Ok /\ b.header.parent_hash = node2.tip
               THEN /\ chain' = ProcessBlock(chain, b)
                    /\ node2' = [n2 EXCEPT !.tip = b.header.hash,
                                           !.accepted = Append(@, b)]
               ELSE /\ chain' = chain
                    /\ node2' = n2

\* node2 receives a compact block.  When the pool holds every committed
\* transaction the block is rebuilt at once; else the block waits and the
\* missing positions are asked of node1.
ReceiveCompactBlock ==
    /\ node2.inbox # <<>>
    /\ Head(node2.inbox).kind = "compact_block"
    /\ LET m == Head(node2.inbox)
           missing == MissingIndexes(node2.pool, m.short_ids)
       IN  IF missing = {}
           THEN /\ VerifyAndExtend(Reconstruct(m, node2.pool, {}, <<>>),
                                   [node2 EXCEPT !.inbox = Tail(@)])
                /\ node1' = node1
           ELSE /\ node2' = [node2 EXCEPT
                                !.inbox = Tail(@),
                                !.pending = @ @@ (m.header.hash :>
                                    [compact |-> m, missing |-> missing])]
                /\ node1' = [node1 EXCEPT !.inbox =
                                Append(@, GetBlockTransactionsMsg(
                                              m.header.hash, missing))]
                /\ UNCHANGED <<block, chain, result, output_indexs>>
    /\ RelayFrame

\* node1 answers a request with the transactions of its block at the
\* positions asked for.
ServeBlockTransactions ==
    /\ node1.inbox # <<>>
    /\ LET m == Head(node1.inbox)
       IN  /\ node1' = [node1 EXCEPT !.inbox = Tail(@)]
           /\ node2' =
                 IF m.hash \in DOMAIN node1.blocks
                 THEN [node2 EXCEPT !.inbox =
                          Append(@, BlockTransactionsMsg(m.hash,
                              Pick(Tail(node1.blocks[m.hash].transactions),
                                   m.indexes, 1)))]
                 ELSE node2
    /\ RelayFrame
    /\ UNCHANGED <<block, chain, result, output_indexs>>

\* node2 receives the transactions it asked for and rebuilds the block
\* that waited for them.
ReceiveBlockTransactions ==
    /\ node2.inbox # <<>>
    /\ Head(node2.inbox).kind = "block_transactions"
    /\ LET m == Head(node2.inbox)
       IN  IF m.hash \in DOMAIN node2.pending
           THEN LET waiting == node2.pending[m.hash]
                IN  VerifyAndExtend(
                        Reconstruct(waiting.compact, node2.pool,
                                    waiting.missing, m.txs),
                        [node2 EXCEPT
                            !.inbox = Tail(@),
                            !.pending = [h \in DOMAIN @ \ {m.hash} |-> @[h]]])
           ELSE /\ node2' = [node2 EXCEPT !.inbox = Tail(@)]
                /\ UNCHANGED <<block, chain, result, output_indexs>>
    /\ node1' = node1
    /\ RelayFrame

RelayNext ==
    \/ Broadcast
    \/ ReceiveTransaction
    \/ ReceiveCompactBlock
    \/ ServeBlockTransactions
    \/ ReceiveBlockTransactions

\* Each node's loop keeps running: a message that can be sent or handled
\* is sent or handled.
RelaySpec ==
    /\ RelayInit
    /\ [][RelayNext]_vars
    /\ WF_vars(Broadcast)
    /\ WF_vars(ReceiveTransaction)
    /\ WF_vars(ReceiveCompactBlock)
    /\ WF_vars(ServeBlockTransactions)
    /\ WF_vars(ReceiveBlockTransactions)

\* ------------------------------------------------------------ properties
\* The order of the six checks.
Order == <<"empty", "duplicate", "cellbase", "merkle", "uncles", "transactions">>

\* What sub-verifier `name` returned in this call (Running: nothing yet).
ReturnedBy(name) ==
    IF \E i \in DOMAIN returned : ran[i] = name
    THEN returned[CHOOSE i \in DOMAIN returned : ran[i] = name]
    ELSE Running

\* C1: BlockVerifier.verify starts the six checks in the order empty,
\* duplicate, cellbase, merkle-root, uncles, transactions; a check that
\* returns anything but Ok is the last one started and its value is the
\* value of the call, unchanged; the call returns Ok only after all six
\* have returned Ok.
C1_FixedOrderFirstFailure ==
    entry = "block" =>
        /\ Len(ran) <= Len(Order)
        /\ ran = SubSeq(Order, 1, Len(ran))
        /\ Len(returned) <= Len(ran)
        /\ \A i \in DOMAIN returned :
              /\ returned[i] # Ok => i = Len(ran) /\ pc = "done"
              /\ ran[i] = "empty" => returned[i] = EmptyTransactionsVerify(block)
              /\ ran[i] = "duplicate" =>
                    returned[i] = DuplicateTransactionsVerify(block)
              /\ ran[i] = "cellbase" =>
                    \E checked \in BOOLEAN :
                        returned[i] = CellbaseTransactionsVerify(block, chain, checked)
              /\ ran[i] = "merkle" => returned[i] = MerkleRootVerify(block)
        /\ pc # "done" => result = Running
        /\ pc = "done" =>
              /\ Len(returned) = Len(ran)
              /\ result = returned[Len(returned)]
              /\ result = Ok => ran = Order

\* A block that passes the first four checks and fails the uncles check.
C1_Witness ==
    /\ entry = "block"
    /\ pc = "done"
    /\ result.kind = "Uncles"
    /\ ran = SubSeq(Order, 1, 5)

\* The transactions that do not satisfy the cellbase predicate, in order.
IsNotCellbase(tx) == ~is_cellbase(tx)
NonCellbase(b) == SelectSeq(b.transactions, IsNotCellbase)

\* The verdict of the external verifier on tx with its inputs resolved as
\* of the candidate's parent.
VerdictOf(tx) ==
    TransactionVerify(
        resolve_transaction_at(block, chain, output_indexs, tx,
                               block.header.parent_hash),
        script_fails)

\* One (position, error) pair per failing transaction of txs.
RECURSIVE FailingPairs(_, _)
FailingPairs(txs, k) ==
    IF k > Len(txs) THEN <<>>
    ELSE (IF VerdictOf(txs[k]) = "Ok" THEN <<>>
          ELSE << <<k - 1, VerdictOf(txs[k])>> >>)
         \o FailingPairs(txs, k + 1)

\* C2: TransactionsVerifier.verify returns Ok when no non-cellbase
\* transaction fails the external verifier, and otherwise
\* Error::Transaction with exactly one (index, error) pair per failing
\* non-cellbase transaction, index being its position among the
\* non-cellbase transactions, whatever the order the workers ran in.
C2_ExactFailingSubset ==
    ReturnedBy("transactions") # Running =>
        LET pairs == FailingPairs(NonCellbase(block), 1)
        IN  ReturnedBy("transactions") =
                IF pairs = <<>> THEN Ok ELSE ErrTransaction(pairs)

\* The same statement for the blocks whose first transaction is their
\* only cellbase: there it holds under every interleaving of the workers.
TransactionsResultCellbaseFirst ==
    (/\ ReturnedBy("transactions") # Running
     /\ CellbaseLen(block) = 1
     /\ is_cellbase(block.transactions[1])) =>
        LET pairs == FailingPairs(NonCellbase(block), 1)
        IN  ReturnedBy("transactions") =
                IF pairs = <<>> THEN Ok ELSE ErrTransaction(pairs)

\* The outpoints and the ancestor hashes cell resolution is asked about.
OutPointsDrawn ==
    {[hash |-> h, index |-> i] :
        h \in {0, 90} \cup NormalHashes \cup Range(TxHashes(block)),
        i \in 0 .. 2}
    \cup {NullOutPoint}
AsOfDrawn == {block.header.parent_hash, MainHash(0), 99, 0}

\* The positions of the candidate's transactions with the hash of o.
Producers(o) ==
    {i \in DOMAIN block.transactions : block.transactions[i].hash = o.hash}

\* The answer the block's own transaction at position i gives for o.
OwnAnswer(i, o) ==
    IF o.index < Len(block.transactions[i].outputs)
    THEN CellState("Head", block.transactions[i].outputs[o.index + 1])
    ELSE Unknown

\* The answer of cell resolution for o as of P, as the claim states it.
Resolution(o, P, r) ==
    IF Producers(o) # {}
    THEN \A i \in Producers(o) : r = OwnAnswer(i, o)
    ELSE r = chain_cell_at(chain, o, P)

\* C3: cell_at(O, P) answers from the candidate's own transaction with
\* O's hash (the cellbase included): present with that output, or unknown
\* when O.index is out of range, the same for every P and without a query
\* to the chain; for any other O it answers chain.cell_at(O, P).  The
\* block, the chain and the index never change, so the answers are
\* compared where TransactionsVerifier.verify starts; the workers then
\* record exactly these answers for the inputs they resolve.
C3_CellResolution ==
    /\ pc = "transactions" =>
          \A o \in OutPointsDrawn, P \in AsOfDrawn :
              /\ Resolution(o, P, cell_at(block, chain, output_indexs, o, P))
              /\ cell_at_delegates(output_indexs, o) <=> Producers(o) = {}
    /\ \A k \in DOMAIN outcomes :
          outcomes[k].done =>
              LET tx == block.transactions[k + 1]
              IN  \A j \in DOMAIN tx.inputs :
                      Resolution(tx.inputs[j].previous_output,
                                 block.header.parent_hash,
                                 outcomes[k].cells[j])
    /\ \A rd \in reads :
          rd.op = "cell_at" => rd.hash \notin Range(TxHashes(block))

\* A worker has resolved T2, which spends output 0 of T1, an earlier
\* transaction of the same block that the chain does not know: present.
C3_Witness ==
    \E k \in DOMAIN outcomes :
        /\ outcomes[k].done
        /\ block.transactions[k + 1] = T2
        /\ \E i \in 1 .. k : block.transactions[i] = T1
        /\ chain_cell_at(chain, T2.inputs[1].previous_output,
                         block.header.parent_hash) = Unknown
        /\ outcomes[k].cells[1] = CellState("Head", 1)

\* C4: TransactionsVerifier.verify skips only the cellbase: when it
\* returns Ok, every transaction of the block that is not a cellbase, the
\* one at index 0 included, passes the external verifier on its inputs
\* resolved as of the candidate's parent.
C4_OnlyCellbaseSkipped ==
    ReturnedBy("transactions") = Ok =>
        \A i \in DOMAIN block.transactions :
            ~is_cellbase(block.transactions[i]) =>
                VerdictOf(block.transactions[i]) = "Ok"

\* The hash of the candidate's ancestor at depth d (depth 1 is its
\* parent), following parent hashes through the stored blocks; None once
\* a block on the way is not stored.
RECURSIVE AncestorHash(_)
AncestorHash(d) ==
    IF d = 1 THEN Some(block.header.parent_hash)
    ELSE LET below == AncestorHash(d - 1)
         IN  IF below = None \/ chain_block(chain, below[1]) = None
             THEN None
             ELSE Some(chain_block(chain, below[1])[1].header.parent_hash)

\* The stored ancestors at depths 1..max_uncles_age.
WalkedAncestors ==
    {chain_block(chain, AncestorHash(d)[1])[1] :
        d \in {d \in 1 .. chain.max_uncles_age :
                 /\ AncestorHash(d) # None
                 /\ chain_block(chain, AncestorHash(d)[1]) # None}}

\* The hashes no uncle may have: the candidate, its parent, its ancestors
\* at depths 1..max_uncles_age, the uncles those ancestors declared.
Forbidden ==
    {block.header.hash, block.header.parent_hash}
    \cup {AncestorHash(d)[1] :
            d \in {d \in 1 .. chain.max_uncles_age : AncestorHash(d) # None}}
    \cup UNION {{a.uncles[i].header.hash : i \in DOMAIN a.uncles} :
                  a \in WalkedAncestors}

UncleHash(i) == block.uncles[i].header.hash

\* C5: an uncle whose hash is the candidate's, its parent's, that of an
\* ancestor at depth 1..max_uncle_age or that of an uncle one of those
\* ancestors declared is never accepted: the uncles check does not
\* return Ok for a list that holds one, and the per-uncle loop, reaching
\* one whose cellbase commitment is right, returns InvalidInclude(hash).
C5_ForbiddenUncleRejected ==
    /\ [](ReturnedBy("uncles") = Ok =>
            \A i \in DOMAIN block.uncles : UncleHash(i) \notin Forbidden)
    /\ [][(/\ pc = "uncles_each"
           /\ UncleHash(uncle_i) \in Forbidden
           /\ block.uncles[uncle_i].header.cellbase_id
                  = block.uncles[uncle_i].cellbase.hash)
          => (/\ pc' = "done"
              /\ result' = ErrUncles("InvalidInclude", <<UncleHash(uncle_i)>>))]_vars

\* The uncle declared by an ancestor of the candidate is offered again and
\* is rejected.
C5_Witness ==
    /\ pc = "done"
    /\ result = ErrUncles("InvalidInclude", <<Side(1).header.hash>>)
    /\ \E a \in WalkedAncestors : a.uncles = <<Side(1)>>

\* candidate.height - uncle.height outside [1, max_uncle_age].
DepthInvalid(i) ==
    block.header.number - block.uncles[i].header.number
        \notin 1 .. chain.max_uncles_age

\* The uncle list passes the hash and length checks and is not empty.
PassesHashAndLength ==
    /\ cal_uncles_hash(block.uncles) = block.header.uncles_hash
    /\ block.uncles # <<>>
    /\ Len(block.uncles) <= chain.max_uncles_len

\* C6: for a candidate at any height whose uncle list passes the hash and
\* length checks and holds an uncle with a depth outside
\* [1, max_uncle_age], the uncles check returns InvalidDepth with
\* min = height - max_uncle_age and max = height - 1.
C6_InvalidDepthAtAnyHeight ==
    (/\ ReturnedBy("uncles") # Running
     /\ PassesHashAndLength
     /\ \E i \in DOMAIN block.uncles : DepthInvalid(i)) =>
        \E i \in DOMAIN block.uncles :
            /\ DepthInvalid(i)
            /\ ReturnedBy("uncles") =
                   ErrUncles("InvalidDepth",
                             <<block.header.number - chain.max_uncles_age,
                               block.header.number - 1,
                               block.uncles[i].header.number>>)

\* The same statement from height max_uncle_age on, where it holds.
InvalidDepthFromMaxAgeOn ==
    block.header.number >= chain.max_uncles_age => C6_InvalidDepthAtAnyHeight

\* C7: when the per-uncle loop reaches an uncle that an earlier position
\* of the list holds too (the earlier one has passed every check), it
\* returns Duplicate(hash); an uncle list the check returns Ok for holds
\* no header hash twice.
C7_DuplicateUncleRejected ==
    /\ [](ReturnedBy("uncles") = Ok =>
            \A i, j \in DOMAIN block.uncles :
                i # j => UncleHash(i) # UncleHash(j))
    /\ [][(/\ pc = "uncles_each"
           /\ \E j \in 1 .. uncle_i - 1 :
                  block.uncles[j] = block.uncles[uncle_i])
          => (/\ pc' = "done"
              /\ result' = ErrUncles("Duplicate", <<UncleHash(uncle_i)>>))]_vars

\* The second occurrence of an uncle is rejected as a duplicate.
C7_Witness ==
    /\ pc = "done"
    /\ uncle_i = 2
    /\ Len(block.uncles) >= 2
    /\ block.uncles[1] = block.uncles[2]
    /\ result = ErrUncles("Duplicate", <<UncleHash(2)>>)

\* The exclusion window: the candidate, its ancestors at depths
\* 1..max_uncles_age, the parent of the last of them, the uncles they
\* declared.
ExclusionWindow ==
    Forbidden
    \cup (IF AncestorHash(chain.max_uncles_age + 1) # None
          THEN {AncestorHash(chain.max_uncles_age + 1)[1]} ELSE {})

\* Header verification of uncle i with its own parent looked up in the
\* chain and the difficulty recomputed from that parent.
UncleHeaderResult(i) ==
    HeaderVerify([header |-> block.uncles[i].header,
                  parent |-> chain_block_header(
                                 chain, block.uncles[i].header.parent_hash)],
                 chain)

\* Everything C8 asks of an uncle list but header verification.
UnclesWellFormed ==
    /\ cal_uncles_hash(block.uncles) = block.header.uncles_hash
    /\ Len(block.uncles) <= chain.max_uncles_len
    /\ \A i \in DOMAIN block.uncles :
          /\ ~DepthInvalid(i)
          /\ block.uncles[i].header.cellbase_id = block.uncles[i].cellbase.hash
          /\ UncleHash(i) \notin ExclusionWindow
          /\ \A j \in DOMAIN block.uncles : i # j => UncleHash(i) # UncleHash(j)

\* C8: for such a list the uncles check returns Ok when every uncle
\* passes header verification, and otherwise the failure of the first
\* uncle that does not.
C8_ValidUnclesAccepted ==
    (ReturnedBy("uncles") # Running /\ UnclesWellFormed) =>
        IF \A i \in DOMAIN block.uncles : UncleHeaderResult(i) = Ok
        THEN ReturnedBy("uncles") = Ok
        ELSE \E i \in DOMAIN block.uncles :
                /\ UncleHeaderResult(i) # Ok
                /\ \A j \in 1 .. i - 1 : UncleHeaderResult(j) = Ok
                /\ ReturnedBy("uncles") = UncleHeaderResult(i)

\* Two different uncles are accepted.
C8_Witness ==
    /\ ReturnedBy("uncles") = Ok
    /\ Len(block.uncles) = 2
    /\ pc = "done"

\* Sums over the integers, without a width.
RECURSIVE TrueSum(_)
TrueSum(xs) == IF xs = <<>> THEN 0 ELSE Head(xs) + TrueSum(Tail(xs))

\* The fees of the transactions after the first.
OtherFees ==
    [k \in 1 .. Len(block.transactions) - 1 |->
        chain.fee[block.transactions[k + 1].hash]]

\* One cellbase, at index 0, with the sentinel input of this height, and
\* every fee computation succeeds.
CellbaseInPlace ==
    /\ block.transactions # <<>>
    /\ is_cellbase(block.transactions[1])
    /\ \A i \in DOMAIN block.transactions :
          i # 1 => ~is_cellbase(block.transactions[i])
    /\ block.transactions[1].inputs[1]
          = new_cellbase_input(block.header.number)
    /\ \A k \in DOMAIN OtherFees : OtherFees[k] >= 0

\* C9: for such a block the cellbase check returns InvalidReward exactly
\* when the sum of the cellbase's output capacities is greater than
\* block_reward(height) plus the sum of the fees, and Ok otherwise.
C9_RewardCap ==
    (ReturnedBy("cellbase") # Running /\ CellbaseInPlace) =>
        ReturnedBy("cellbase") =
            IF TrueSum(block.transactions[1].outputs)
                   > block_reward(chain, block.header.number) + TrueSum(OtherFees)
            THEN ErrCellbase("InvalidReward")
            ELSE Ok

\* The same statement for the blocks whose sums all fit the Capacity
\* integer, where it holds.
RewardCapWhenSumsFit ==
    (/\ CellbaseInPlace
     /\ TrueSum(block.transactions[1].outputs) <= CapacityMax
     /\ block_reward(chain, block.header.number) + TrueSum(OtherFees)
            <= CapacityMax)
        => C9_RewardCap

\* C10: a block with two or more transactions satisfying the cellbase
\* predicate fails the cellbase check with Cellbase(InvalidQuantity),
\* wherever they sit and whatever they hold.
C10_TwoCellbasesInvalidQuantity ==
    (/\ ReturnedBy("cellbase") # Running
     /\ \E i, j \in DOMAIN block.transactions :
           /\ i # j
           /\ is_cellbase(block.transactions[i])
           /\ is_cellbase(block.transactions[j])) =>
        ReturnedBy("cellbase") = ErrCellbase("InvalidQuantity")

\* Two cellbases, one of them at index 0, called on the check alone.
C10_Witness ==
    /\ entry = "cellbase"
    /\ pc = "done"
    /\ block.transactions # <<>>
    /\ is_cellbase(block.transactions[1])
    /\ \E j \in DOMAIN block.transactions :
          j # 1 /\ is_cellbase(block.transactions[j])
    /\ result = ErrCellbase("InvalidQuantity")

\* ------------------------------------------------------------ merkle root
\* C11: MerkleRootVerifier.verify returns Ok exactly when the header's
\* commitment is the merkle root of the block's transaction hashes in list
\* order, and TransactionsRoot otherwise; a commitment made for a list
\* that differs from the block's in the hash of one transaction, or in
\* the order of the hashes, is rejected with TransactionsRoot.
C11_MerkleRootExact ==
    (entry = "merkle" /\ pc = "done") =>
        /\ result \in {Ok, ErrTransactionsRoot}
        /\ result = Ok <=>
               block.header.txs_commit = merkle_root(TxHashes(block))
        /\ \A hs \in OneHashChanged(TxHashes(block))
                       \cup Reordered(TxHashes(block)) :
               block.header.txs_commit = merkle_root(hs) =>
                   result = ErrTransactionsRoot

\* The header commits to the block's three transactions in another order:
\* the verifier has answered TransactionsRoot.
C11_Witness ==
    /\ entry = "merkle"
    /\ pc = "done"
    /\ Len(block.transactions) = 3
    /\ block.header.txs_commit # merkle_root(TxHashes(block))
    /\ \E hs \in Reordered(TxHashes(block)) :
           block.header.txs_commit = merkle_root(hs)
    /\ result = ErrTransactionsRoot

\* ----------------------------------------------------- empty transactions
\* C12: a block without transactions fails BlockVerifier.verify with
\* EmptyTransactions, the first and only check that ran, whatever its
\* header, its uncles and the chain are; EmptyTransactionsVerifier.verify
\* fails the empty list the same way and succeeds for every other list.
C12_EmptyTransactionsFirst ==
    /\ (entry \in {"block", "empty"} /\ pc = "done"
            /\ block.transactions = <<>>) =>
           /\ result = ErrEmptyTransactions
           /\ ran = <<"empty">>
    /\ (entry = "empty" /\ pc = "done" /\ block.transactions # <<>>) =>
           result = Ok
    /\ (entry = "block" /\ ran # <<>>) =>
           /\ ran[1] = "empty"
           /\ returned[1] = Ok <=> block.transactions # <<>>

\* BlockVerifier.verify has returned EmptyTransactions for an empty block
\* whose header commits to a wrong root and which declares a main-chain
\* ancestor as its uncle.
C12_Witness ==
    /\ entry = "block"
    /\ pc = "done"
    /\ block.transactions = <<>>
    /\ block.header.txs_commit # merkle_root(<<>>)
    /\ block.uncles # <<>>
    /\ result = ErrEmptyTransactions

\* ------------------------------------------------- verify() as a function
\* The step-by-step calls and the functions above agree: what a finished
\* call returned is the function's value for the block and the chain, in
\* one of the two builds.
VerifyAgrees ==
    pc = "done" =>
        \E checked \in BOOLEAN :
            result =
                CASE entry = "block" ->
                         BlockVerify(block, chain, script_fails, checked)
                  [] entry = "empty" -> EmptyTransactionsVerify(block)
                  [] entry = "duplicate" -> DuplicateTransactionsVerify(block)
                  [] entry = "cellbase" ->
                         CellbaseTransactionsVerify(block, chain, checked)
                  [] entry = "merkle" -> MerkleRootVerify(block)
                  [] entry = "uncles" -> UnclesVerify(block, chain, checked)
                  [] entry = "transactions" ->
                         TransactionsVerify(block, chain, script_fails)

\* ------------------------------------------------------------------ relay
\* The height of node2's tip.
RelayTipNumber == chain.blocks[node2.tip].header.number

C14_VerifiersOnlyRead ==
    [][block' = block /\ chain' = chain]_vars

\* A whole BlockVerifier.verify call has returned Ok after consulting the
\* chain for the reward and for the cells two concurrent workers
\* resolved.
C14_Witness ==
    /\ entry = "block"
    /\ pc = "done"
    /\ result = Ok
    /\ Len(outcomes) >= 2
    /\ \A k \in DOMAIN outcomes : outcomes[k].done
    /\ \E rd \in reads : rd.op = "cell_at"
    /\ \E rd \in reads : rd.op = "block_reward"

\* ------------------------------------------------- duplicate transactions
\* C15: DuplicateTransactionsVerifier.verify fails with
\* DuplicateTransactions exactly when two transactions at different
\* positions of the block have the same hash, and succeeds otherwise,
\* for the empty list too.
C15_DuplicateExact ==
    (entry = "duplicate" /\ pc = "done") =>
        result =
            IF \E i, j \in DOMAIN block.transactions :
                  i # j /\ block.transactions[i].hash = block.transactions[j].hash
            THEN ErrDuplicateTransactions
            ELSE Ok

\* The verifier has failed a block whose first and third transactions
\* have the same hash while the second differs.
C15_Witness ==
    /\ entry = "duplicate"
    /\ pc = "done"
    /\ Len(block.transactions) = 3
    /\ block.transactions[1].hash = block.transactions[3].hash
    /\ block.transactions[1].hash # block.transactions[2].hash
    /\ result = ErrDuplicateTransactions

\* ------------------------------------------------- same-block visibility
\* C16: while the inputs of a transaction of the block are resolved, an
\* outpoint whose producing transactions all sit at the same or a later
\* position than the spending transaction is not answered from the
\* block's own outputs: the answer recorded for it is the chain's.
C16_OnlyEarlierOutputsVisible ==
    \A k \in DOMAIN outcomes :
        outcomes[k].done =>
            LET pos == k + 1
                tx == block.transactions[pos]
            IN  \A j \in DOMAIN tx.inputs :
                    LET o == tx.inputs[j].previous_output
                    IN  (Producers(o) # {} /\ \A i \in Producers(o) : i >= pos)
                            => outcomes[k].cells[j] =
                                   chain_cell_at(chain, o, block.header.parent_hash)

\* ------------------------------------------------------ uncles precedence
\* The first per-uncle rule uncle i breaks, the uncles before it having
\* been accepted: cellbase commitment, repetition, exclusion window,
\* header verification.  Ok when it breaks none.
UncleRuleBroken(i) ==
    IF block.uncles[i].header.cellbase_id # block.uncles[i].cellbase.hash
    THEN ErrUncles("InvalidCellbase", <<>>)
    ELSE IF \E j \in 1 .. i - 1 : UncleHash(j) = UncleHash(i)
    THEN ErrUncles("Duplicate", <<UncleHash(i)>>)
    ELSE IF UncleHash(i) \in ExclusionWindow
    THEN ErrUncles("InvalidInclude", <<UncleHash(i)>>)
    ELSE UncleHeaderResult(i)

\* The least position of the uncle list that satisfies P.
FirstUncle(P(_)) ==
    CHOOSE i \in DOMAIN block.uncles :
        P(i) /\ \A j \in 1 .. i - 1 : ~P(j)

\* The chain lookups the uncles check has made.
UncleLookups == {rd \in reads : rd.op \in {"block", "block_header"}}

\* C17: UnclesVerifier.verify returns the first violated rule in the
\* order InvalidHash, OverLength (length strictly greater than the
\* maximum), InvalidDepth of the first uncle out of range (before any
\* chain lookup), then uncle by uncle in list order InvalidCellbase,
\* Duplicate, InvalidInclude, header verification; the per-uncle loop
\* stops at the first uncle that fails.
C17_UnclesPrecedence ==
    LET r == ReturnedBy("uncles")
        BadDepth(i) == DepthInvalid(i)
        Broken(i) == UncleRuleBroken(i) # Ok
    IN  r # Running =>
          IF cal_uncles_hash(block.uncles) # block.header.uncles_hash
          THEN /\ r = ErrUncles("InvalidHash",
                                <<block.header.uncles_hash,
                                  cal_uncles_hash(block.uncles)>>)
               /\ UncleLookups = {}
          ELSE IF block.uncles = <<>>
          THEN r = Ok /\ UncleLookups = {}
          ELSE IF Len(block.uncles) > chain.max_uncles_len
          THEN /\ r = ErrUncles("OverLength",
                                <<chain.max_uncles_len, Len(block.uncles)>>)
               /\ UncleLookups = {}
          ELSE IF \E i \in DOMAIN block.uncles : BadDepth(i)
          THEN /\ r.kind = "Uncles"
               /\ r.sub = "InvalidDepth"
               /\ r.nums[3] = block.uncles[FirstUncle(BadDepth)].header.number
               /\ UncleLookups = {}
          ELSE IF \E i \in DOMAIN block.uncles : Broken(i)
          THEN /\ r = UncleRuleBroken(FirstUncle(Broken))
               /\ uncle_i = FirstUncle(Broken)
          ELSE r = Ok

\* The same statement from height max_uncle_age on, where the InvalidDepth
\* error can be built.
UnclesPrecedenceFromMaxAgeOn ==
    block.header.number >= chain.max_uncles_age => C17_UnclesPrecedence

\* ------------------------------------------------------------ uncles hash
\* C18: the uncles check compares the uncles hash first: when the hash
\* recomputed over the uncle headers differs from the header's, it
\* returns InvalidHash{expected: the header's, actual: the recomputed},
\* for the empty list and for lists that break later rules too; an
\* empty list whose hash matches is accepted.  Neither case looks
\* anything up in the chain.
C18_UnclesHashFirst ==
    LET r == ReturnedBy("uncles")
        actual == cal_uncles_hash(block.uncles)
    IN  r # Running =>
          /\ actual # block.header.uncles_hash =>
                /\ r = ErrUncles("InvalidHash",
                                 <<block.header.uncles_hash, actual>>)
                /\ UncleLookups = {}
          /\ (actual = block.header.uncles_hash /\ block.uncles = <<>>) =>
                /\ r = Ok
                /\ UncleLookups = {}

\* An empty uncle list under a header that declares another uncles hash
\* has been rejected with InvalidHash.
C18_Witness ==
    /\ entry = "uncles"
    /\ pc = "done"
    /\ block.uncles = <<>>
    /\ block.header.uncles_hash # cal_uncles_hash(<<>>)
    /\ result = ErrUncles("InvalidHash",
                          <<block.header.uncles_hash, cal_uncles_hash(<<>>)>>)

\* ------------------------------------------------------ cellbase position
\* The indexes of the transactions satisfying the cellbase predicate.
CellbaseIndexes ==
    {i \in DOMAIN block.transactions : is_cellbase(block.transactions[i])}

\* The reward and fee queries made so far.
RewardQueries ==
    {rd \in reads : rd.op \in {"block_reward", "calculate_transaction_fee"}}

\* C19: a block whose only cellbase is not its first transaction fails
\* the cellbase check with Cellbase(InvalidPosition), whatever the
\* cellbase's input, outputs and the fees are and before any reward or
\* fee is queried; so a block the cellbase check accepts has at most one
\* cellbase, and that one at index 0.
C19_CellbaseOnlyAtIndexZero ==
    LET r == ReturnedBy("cellbase")
    IN  /\ (/\ r # Running
            /\ Cardinality(CellbaseIndexes) = 1
            /\ 1 \notin CellbaseIndexes) =>
              /\ r = ErrCellbase("InvalidPosition")
              /\ RewardQueries = {}
        /\ r = Ok => CellbaseIndexes \subseteq {1}

\* BlockVerifier.verify has stopped at the cellbase check with
\* InvalidPosition on a block whose only cellbase comes after an
\* ordinary transaction.
C19_Witness ==
    /\ entry = "block"
    /\ pc = "done"
    /\ Len(block.transactions) >= 2
    /\ CellbaseIndexes = {2}
    /\ ran[Len(ran)] = "cellbase"
    /\ result = ErrCellbase("InvalidPosition")

\* -------------------------------------------------------- no cellbase
\* C20: the cellbase check returns Ok, and queries neither the block
\* reward nor any fee, for an empty transaction list and for a non-empty
\* list none of whose transactions is a cellbase; inside
\* BlockVerifier.verify such a block goes on to the merkle-root check.
C20_NoCellbasePasses ==
    LET r == ReturnedBy("cellbase")
    IN  (r # Running /\ CellbaseIndexes = {}) =>
            /\ r = Ok
            /\ RewardQueries = {}
            /\ entry = "block" => pc # "done" \/ Len(ran) > 3

\* BlockVerifier.verify has passed the cellbase step on a block of
\* ordinary transactions only, and has gone on to the merkle-root check.
C20_Witness ==
    /\ entry = "block"
    /\ block.transactions # <<>>
    /\ CellbaseIndexes = {}
    /\ ReturnedBy("cellbase") = Ok
    /\ Len(ran) >= 4
    /\ ran[4] = "merkle"

\* --------------------------------------------------------- cellbase input
\* C21: for a block whose only cellbase is its first transaction, the
\* cellbase check returns Cellbase(InvalidInput) whenever that
\* transaction's input is not the sentinel input of the block's own
\* height, and it has then queried neither the reward nor a fee; a
\* failure of a later transaction's fee computation is returned only
\* for a cellbase whose input is that sentinel.
C21_CellbaseInputBeforeFees ==
    LET r == ReturnedBy("cellbase")
        sentinel == new_cellbase_input(block.header.number)
    IN  /\ (/\ r # Running
            /\ CellbaseIndexes = {1}
            /\ block.transactions[1].inputs[1] # sentinel) =>
              /\ r = ErrCellbase("InvalidInput")
              /\ RewardQueries = {}
        /\ r = ErrFee =>
              /\ CellbaseIndexes = {1}
              /\ block.transactions[1].inputs[1] = sentinel
              /\ \E i \in 2 .. Len(block.transactions) :
                    chain.fee[block.transactions[i].hash] < 0

\* A cellbase at index 0 carrying the sentinel of another height,
\* followed by a transaction whose fee computation fails, has been
\* rejected with InvalidInput.
C21_Witness ==
    /\ pc = "done"
    /\ CellbaseIndexes = {1}
    /\ is_cellbase(block.transactions[1])
    /\ block.transactions[1].inputs[1]
          # new_cellbase_input(block.header.number)
    /\ \E i \in 2 .. Len(block.transactions) :
          chain.fee[block.transactions[i].hash] < 0
    /\ ReturnedBy("cellbase") = ErrCellbase("InvalidInput")
    /\ result = ErrCellbase("InvalidInput")

\* ------------------------------------------------------ the ancestor walk
\* UnclesVerifier::verify called on its own and run to its return: the
\* call is sequential code without a blocking step, so a step that can
\* be taken is taken.
UnclesInit == Init /\ entry = "uncles"

UnclesNext == UnclesStart \/ UnclesDepth \/ UnclesWalk \/ UnclesEach

UnclesSpec == UnclesInit /\ [][UnclesNext]_vars /\ WF_vars(UnclesNext)

\* The chain.block lookups made so far.
BlockLookups == {rd \in reads : rd.op = "block"}

\* The walk has looked up a block the store does not hold.
WalkMissed ==
    \E rd \in BlockLookups : chain_block(chain, rd.hash) = None

\* The exclusion set of the ancestors the walk has found.
PartialExcluded ==
    ExcludedSeed(block) \cup UNION {ExcludedOf(a) : a \in WalkedAncestors}

\* The walk is bounded and follows the parent hashes: after walk_i
\* iterations it has looked up exactly the ancestors at depths
\* 1..walk_i, walk_i is at most max_uncles_age, and a lookup that misses
\* is the last one; once the walk is over, the exclusion set is the one
\* of the ancestors found and the uncles are checked against it.
WalkBounded ==
    /\ walk_i <= chain.max_uncles_age
    /\ Cardinality(BlockLookups) = walk_i
    /\ \A d \in 1 .. walk_i :
          /\ AncestorHash(d) # None
          /\ Read("block", AncestorHash(d)[1], 0, 0) \in BlockLookups
    /\ WalkMissed =>
          /\ pc # "uncles_walk"
          /\ chain_block(chain, AncestorHash(walk_i)[1]) = None
          /\ \A d \in 1 .. walk_i - 1 :
                chain_block(chain, AncestorHash(d)[1]) # None
    /\ pc = "uncles_each" => excluded = PartialExcluded
    /\ (pc = "done" /\ walk_i > 0) =>
          result = UnclesLoop(chain, block.uncles, {}, PartialExcluded)

\* C22: the ancestor walk terminates for every chain content: it makes
\* at most max_uncles_age block lookups, the first at the candidate's
\* parent and each next one at the parent hash of the block found, and
\* the first lookup that misses ends it; the uncles are then checked
\* against the exclusion set collected so far and the call returns.
C22_WalkTerminates ==
    /\ []WalkBounded
    /\ (pc = "uncles_walk") ~> (pc = "uncles_each")
    /\ (pc = "uncles_each") ~> (pc = "done")

\* The walk has stopped at a miss on its second lookup, short of
\* max_uncles_age found blocks, and an uncle has then been rejected for
\* being in the exclusion set collected up to the miss.
C22_Witness ==
    /\ entry = "uncles"
    /\ pc = "done"
    /\ walk_i = 2
    /\ WalkMissed
    /\ Cardinality(WalkedAncestors) = 1
    /\ \E u \in DOMAIN block.uncles :
          result = ErrUncles("InvalidInclude", <<block.uncles[u].header.hash>>)

\* ------------------------------------------------------------ exact sums
\* C23: the reward check is decided on exact sums: for a block with its
\* cellbase in place and every reward, fee and output capacity within
\* the Capacity integer, the cellbase check does not abort, and it does
\* not return Ok when the true total of the cellbase's outputs is
\* greater than the true block reward plus fees.
C23_RewardOnExactSums ==
    LET r == ReturnedBy("cellbase")
    IN  (r # Running /\ CellbaseInPlace) =>
            /\ r # Panic
            /\ (TrueSum(block.transactions[1].outputs)
                   > block_reward(chain, block.header.number)
                       + TrueSum(OtherFees)) => r # Ok

\* The part of that statement that holds: a block whose true sums all
\* fit the Capacity integer is neither aborted on nor wrongly accepted.
ExactWhenSumsFit ==
    (/\ CellbaseInPlace
     /\ TrueSum(block.transactions[1].outputs) <= CapacityMax
     /\ block_reward(chain, block.header.number) + TrueSum(OtherFees)
            <= CapacityMax)
        => C23_RewardOnExactSums

====
